---- MODULE Spec2Model ----
(***************************************************************************)
(* Model of src/main.py: the memoized Perplexica client                    *)
(* (search_perplexica under st.cache_data(ttl=300)), the submit flow that  *)
(* calls it once per mode and renders three tabs, and the pure helper      *)
(* extract_youtube_id.                                                     *)
(*                                                                         *)
(* Strings that the code only compares are TLA+ strings; strings that the  *)
(* code scans with a regular expression are sequences of one-character     *)
(* strings.  Python's None is a record of its own wherever a value may be  *)
(* absent, so that every variable keeps one shape.                         *)
(***************************************************************************)
EXTENDS Integers, Sequences, FiniteSets, TLC

VARIABLES
    now,          \* wall clock, in seconds
    cache,        \* entries held by st.cache_data for search_perplexica
    fetched,      \* per (query, mode): body of the latest successful network fetch
    last,         \* the most recent invocation of search_perplexica: arguments,
                  \* time, HTTP POSTs it issued, the request it sent, its result
    pc,           \* position of the script run
    query,        \* st.text_input value of the run
    outcome,      \* per mode: result of this run's search_perplexica call
    runPosts,     \* HTTP POSTs issued by the current run
    web_result,   \* local of the run (line 58/61)
    imgs,         \* local of the run (line 64/66)
    vids,         \* local of the run (line 69/71)
    alerts,       \* modes for which st.error showed a failure message
    panels,       \* what each tab shows
    url,          \* argument of extract_youtube_id
    yt            \* value returned by extract_youtube_id

vars == <<now, cache, fetched, last, pc, query, outcome, runPosts, web_result,
          imgs, vids, alerts, panels, url, yt>>

(***************************************************************************)
(* Bounds of the model.                                                    *)
(***************************************************************************)
MaxTime == 300
MaxSegs == 3

(***************************************************************************)
(* Program constants.                                                      *)
(***************************************************************************)
TTL == 300
TIMEOUT == 60

PERPLEXICA_BASE == "http://localhost:3000/api"

ENDPOINTS ==
    [web    |-> [base |-> PERPLEXICA_BASE, path |-> "/search"],
     images |-> [base |-> PERPLEXICA_BASE, path |-> "/images"],
     videos |-> [base |-> PERPLEXICA_BASE, path |-> "/videos"]]

NoUrl == [base |-> "", path |-> ""]


(***************************************************************************)
(* Inputs: queries, mode tags and URL strings.                             *)
(***************************************************************************)
Queries == {"q1", "q2"}
RunQueries == {"q1"}
ValidModes == {"web", "images", "videos"}
ModeInputs == ValidModes \cup {"news"}
\* the (query, mode) pairs search_perplexica is called with: one query with
\* every mode tag, and a second query in web mode
CallInputs == ({"q1"} \X ModeInputs) \cup {<<"q2", "web">>}
Keys == Queries \X ModeInputs

SegScheme == <<"h","t","t","p","s",":","/","/">>
SegYoutuBe == <<"y","o","u","t","u",".","b","e","/">>
SegWatch == <<"y","o","u","t","u","b","e",".","c","o","m","/","w","a","t","c","h","?","v","=">>
SegNear == <<"y","o","u","t","u","x","b","e","/">>
SegExample == <<"e","x","a","m","p","l","e",".","c","o","m">>
SegId == <<"X","Y","Z">>
SegQuestion == <<"?">>
SegAmp == <<"&">>
Segments ==
    {SegScheme, SegYoutuBe, SegWatch, SegNear, SegExample, SegId, SegQuestion, SegAmp}

RECURSIVE Concat(_)
Concat(ss) == IF ss = <<>> THEN <<>> ELSE Head(ss) \o Concat(Tail(ss))

UrlInputs ==
    {Concat(ss) : ss \in UNION {[1..n -> Segments] : n \in 1..MaxSegs}}

UrlYoutuBeXYZ == SegScheme \o SegYoutuBe \o SegId
UrlExample == SegScheme \o SegExample

(***************************************************************************)
(* extract_youtube_id (lines 49-53).  A pattern is its literal prefix      *)
(* followed by the group ([^?&]+): one or more characters other than '?'   *)
(* and '&', as many as there are.  re.search returns the leftmost match.   *)
(***************************************************************************)
PatYoutuBe == <<"y","o","u","t","u",".","b","e","/">>
PatWatch == <<"y","o","u","t","u","b","e",".","c","o","m","/","w","a","t","c","h","?","v","=">>
Patterns == <<PatYoutuBe, PatWatch>>

None == [some |-> FALSE, id |-> <<>>]
Some(s) == [some |-> TRUE, id |-> s]

InGroupClass(c) == c \notin {"?", "&"}

LiteralAt(lit, s, i) ==
    /\ i + Len(lit) - 1 <= Len(s)
    /\ \A k \in 1..Len(lit) : s[i + k - 1] = lit[k]

RECURSIVE GroupEnd(_, _)
GroupEnd(s, j) ==
    IF j <= Len(s) /\ InGroupClass(s[j]) THEN GroupEnd(s, j + 1) ELSE j - 1

MatchAt(lit, s, i) ==
    /\ LiteralAt(lit, s, i)
    /\ i + Len(lit) <= Len(s)
    /\ InGroupClass(s[i + Len(lit)])

RECURSIVE SearchFrom(_, _, _)
SearchFrom(lit, s, i) ==
    IF i > Len(s) THEN None
    ELSE IF MatchAt(lit, s, i)
         THEN Some(SubSeq(s, i + Len(lit), GroupEnd(s, i + Len(lit))))
         ELSE SearchFrom(lit, s, i + 1)

re_search_match(lit, s) == IF MatchAt(lit, s, 1) THEN SearchFrom(lit, s, 1) ELSE None

re_search(lit, s) == SearchFrom(lit, s, 1)

RECURSIVE TryPatterns(_, _)
TryPatterns(ps, u) ==
    IF ps = <<>> THEN None
    ELSE LET m == re_search(Head(ps), u)
         IN  IF m.some THEN m ELSE TryPatterns(Tail(ps), u)

extract_youtube_id(u) == TryPatterns(Patterns, u)

(***************************************************************************)
(* Upstream responses.  A JSON body is a record (a dict); Malformed is a   *)
(* body that is not JSON; PyNone is Python's None.                         *)
(***************************************************************************)
PyNone == [none |-> TRUE]
Malformed == [malformed |-> TRUE]

WebBodyA ==
    [message |-> "answer A",
     sources |-> << [metadata |-> [title |-> "A", url |-> UrlYoutuBeXYZ],
                     pageContent |-> "hi"] >>]
WebBodyB ==
    [message |-> "answer B",
     sources |-> << [metadata |-> [title |-> "B", url |-> UrlExample],
                     pageContent |-> "hi"] >>]
ImagesEmpty == [images |-> << >>]
ImagesOne ==
    [images |-> << [img_src |-> "http://img/1.png", title |-> "one",
                    url |-> "http://img/1"] >>]
VideosEmpty == [videos |-> << >>]
VideosOne ==
    [videos |-> << [img_src |-> "http://vid/1.png", title |-> "clip",
                    url |-> "http://vid/1", iframe_src |-> "http://vid/1/embed"] >>]

JsonBodies(mode) ==
    IF mode = "web" THEN {WebBodyA, WebBodyB}
    ELSE IF mode = "images" THEN {ImagesEmpty, ImagesOne}
    ELSE IF mode = "videos" THEN {VideosEmpty, VideosOne}
    ELSE {}

\* What requests.post can come back with: no response at all (connection
\* error, timeout), or a response with a status and a body.
NoResponse == [arrived |-> FALSE, status |-> 0, body |-> Malformed]
Http(st, b) == [arrived |-> TRUE, status |-> st, body |-> b]
Responses(mode) ==
    {NoResponse, Http(500, Malformed)}
        \cup {Http(200, b) : b \in JsonBodies(mode) \cup {Malformed}}
        \cup {Http(304, b) : b \in JsonBodies(mode)}

(***************************************************************************)
(* search_perplexica (lines 20-38).                                        *)
(***************************************************************************)
NoResult == [kind |-> "none", status |-> 0, value |-> PyNone]
Raise(kind, status) == [kind |-> kind, status |-> status, value |-> PyNone]
Return(value) == [kind |-> "ok", status |-> 0, value |-> value]

\* ENDPOINTS.get(mode): the url, or None (NoUrl) for a mode that is no key.
EndpointsGet_Default(mode) ==
    IF mode \in DOMAIN ENDPOINTS THEN ENDPOINTS[mode] ELSE ENDPOINTS["web"]

EndpointsGet(mode) ==
    IF mode \in DOMAIN ENDPOINTS THEN ENDPOINTS[mode] ELSE NoUrl

\* lines 26-34
BuildPayload_Shared(q, mode) ==
    [query |-> q, focusMode |-> "webSearch", optimizationMode |-> "speed"]

BuildPayload(q, mode) ==
    IF mode = "web"
    THEN [query |-> q, focusMode |-> "webSearch", optimizationMode |-> "speed"]
    ELSE [query |-> q,
          chatModel |-> [provider |-> "gemini",
                         model |-> "gemini-2.5-flash-preview-05-20"],
          chatHistory |-> << >>]

NoRequest ==
    [query |-> "", mode |-> "", url |-> NoUrl, json |-> [query |-> ""], timeout |-> 0]

\* line 36: the request handed to requests.post
Request(q, mode) ==
    [query |-> q, mode |-> mode, url |-> EndpointsGet(mode),
     json |-> BuildPayload(q, mode), timeout |-> TIMEOUT]

\* line 37: resp.raise_for_status() raises for 4xx and 5xx
RaisesForStatus(status) == 400 <= status /\ status < 600

\* lines 22-38, the function body without the decorator
Body(q, mode, resp) ==
    IF EndpointsGet(mode) = NoUrl THEN Raise("ValueError", 0)
    ELSE IF ~resp.arrived THEN Raise("ConnectionError", 0)
    ELSE IF RaisesForStatus(resp.status) THEN Raise("HTTPError", resp.status)
    ELSE IF resp.body = Malformed THEN Raise("JSONDecodeError", 0)
    ELSE Return(resp.body)

\* number of HTTP POSTs one execution of the body issues
PostsIssued_Retry(q, mode, resp) ==
    IF EndpointsGet(mode) = NoUrl THEN 0
    ELSE IF Body(q, mode, resp).kind = "ok" THEN 1 ELSE 2

PostsIssued(q, mode, resp) == IF EndpointsGet(mode) = NoUrl THEN 0 ELSE 1

(***************************************************************************)
(* st.cache_data(ttl=300) (line 20): entries keyed by the arguments, kept  *)
(* for TTL seconds from the moment they are stored.                        *)
(***************************************************************************)
CacheLookup_ShortWindow(c, t, q, mode) ==
    {e \in c : e.query = q /\ e.mode = mode /\ t - e.at < 1}

CacheLookup_NoExpiry(c, t, q, mode) ==
    {e \in c : e.query = q /\ e.mode = mode}

CacheLookup_ByQuery(c, t, q, mode) ==
    {e \in c : e.query = q /\ t - e.at < TTL}

CacheLookup(c, t, q, mode) ==
    {e \in c : e.query = q /\ e.mode = mode /\ t - e.at < TTL}

CacheStore(c, t, q, mode, value) ==
    {e \in c : ~(e.query = q /\ e.mode = mode)}
        \cup {[query |-> q, mode |-> mode, value |-> value, at |-> t]}

\* what the decorator keeps of an execution of the body
CacheAfter_Always(c, t, q, mode, r) == CacheStore(c, t, q, mode, r.value)

CacheAfter(c, t, q, mode, r) ==
    IF r.kind = "ok" THEN CacheStore(c, t, q, mode, r.value) ELSE c

\* the decorated function: [result, cache, posts]
search_perplexica(c, t, q, mode, resp) ==
    LET hits == CacheLookup(c, t, q, mode)
    IN  IF hits # {}
        THEN [result |-> Return((CHOOSE e \in hits : TRUE).value),
              cache |-> c, posts |-> 0]
        ELSE LET r == Body(q, mode, resp)
             IN  [result |-> r,
                  cache |-> CacheAfter(c, t, q, mode, r),
                  posts |-> PostsIssued(q, mode, resp)]

(***************************************************************************)
(* The script run (lines 44-134).                                          *)
(***************************************************************************)
\* the instants at which something happens
Times == {t \in {0, TTL - 1, TTL, TTL + 1} : t <= MaxTime}

\* dict.get(key, default)
DictGet(d, key, default) == IF key \in DOMAIN d THEN d[key] ELSE default

\* truthiness of the value `if web_result:` tests (None, or a dict with keys)
Truthy(v) == v # PyNone

\* line 59, `except Exception`: every error search_perplexica raises is one
WebCatches(kind) ==
    kind \in {"ValueError", "ConnectionError", "HTTPError", "JSONDecodeError"}

\* lines 65 and 70, bare `except:`
BareCatches_Narrow(kind) == kind = "HTTPError"

BareCatches(kind) == TRUE

NoPanel == [show |-> "blank", items |-> << >>]
Prompt == [show |-> "prompt", items |-> << >>]
Info == [show |-> "info", items |-> << >>]

\* lines 81-93: one expander per source
RECURSIVE WebItems(_)
WebItems(srcs) ==
    IF srcs = << >> THEN << >>
    ELSE LET src == Head(srcs)
             meta == DictGet(src, "metadata", PyNone)
         IN  << [title |-> meta.title,
                 thumb |-> extract_youtube_id(meta.url),
                 link |-> meta.url,
                 snippet |-> DictGet(src, "pageContent", "")] >>
             \o WebItems(Tail(srcs))

\* lines 74-95
WebPanel(w) ==
    IF Truthy(w)
    THEN [show |-> "results", items |-> WebItems(DictGet(w, "sources", << >>))]
    ELSE Info

\* lines 98-107 and 110-130
ListPanel(xs) ==
    IF xs # << >> THEN [show |-> "results", items |-> xs] ELSE Info

NoOutcome == [m \in ValidModes |-> NoResult]

NoCall ==
    [query |-> "", mode |-> "", at |-> 0, posts |-> 0, request |-> NoRequest,
     result |-> NoResult]

Init ==
    /\ now = 0
    /\ cache = {}
    /\ fetched = [k \in Keys |-> PyNone]
    /\ last = NoCall
    /\ pc = "idle"
    /\ query = ""
    /\ outcome = NoOutcome
    /\ runPosts = 0
    /\ web_result = PyNone
    /\ imgs = << >>
    /\ vids = << >>
    /\ alerts = {}
    /\ panels = [m \in ValidModes |-> Prompt]
    /\ url = << >>
    /\ yt = None

\* one invocation of search_perplexica(q, mode), answered by the upstream
\* as sp records
Invoke(q, mode, sp) ==
    /\ cache' = sp.cache
    /\ fetched' = IF sp.posts > 0 /\ sp.result.kind = "ok"
                  THEN [fetched EXCEPT ![<<q, mode>>] = sp.result.value]
                  ELSE fetched
    /\ last' = [query |-> q, mode |-> mode, at |-> now, posts |-> sp.posts,
                request |-> IF sp.posts > 0 THEN Request(q, mode) ELSE NoRequest,
                result |-> sp.result]

\* search_perplexica called on its own, with any mode tag
Call(q, mode, resp) ==
    /\ pc = "idle"
    /\ LET sp == search_perplexica(cache, now, q, mode, resp)
       IN  Invoke(q, mode, sp)
    /\ UNCHANGED <<now, pc, query, outcome, runPosts, web_result, imgs, vids,
                   alerts, panels, url, yt>>

\* time passes
Tick(t) ==
    /\ t > now
    /\ now' = t
    /\ UNCHANGED <<cache, fetched, last, pc, query, outcome, runPosts,
                   web_result, imgs, vids, alerts, panels, url, yt>>

\* line 55 true: the button was pressed with a non-empty query
Submit(q) ==
    /\ pc = "idle"
    /\ pc' = "web"
    /\ query' = q
    /\ outcome' = NoOutcome
    /\ runPosts' = 0
    /\ web_result' = PyNone
    /\ imgs' = << >>
    /\ vids' = << >>
    /\ alerts' = {}
    /\ panels' = [m \in ValidModes |-> NoPanel]
    /\ UNCHANGED <<now, cache, fetched, last, url, yt>>

\* lines 56-61
SearchWeb(resp) ==
    /\ pc = "web"
    /\ LET sp == search_perplexica(cache, now, query, "web", resp)
           r == sp.result
       IN  /\ Invoke(query, "web", sp)
           /\ outcome' = [outcome EXCEPT !["web"] = r]
           /\ runPosts' = runPosts + sp.posts
           /\ IF r.kind = "ok"
              THEN /\ web_result' = r.value
                   /\ alerts' = alerts
                   /\ pc' = "images"
              ELSE IF WebCatches(r.kind)
              THEN /\ web_result' = PyNone
                   /\ alerts' = alerts \cup {"web"}
                   /\ pc' = "images"
              ELSE /\ UNCHANGED <<web_result, alerts>>
                   /\ pc' = "crashed"
    /\ UNCHANGED <<now, query, imgs, vids, panels, url, yt>>

\* lines 62-66
SearchImages(resp) ==
    /\ pc = "images"
    /\ LET sp == search_perplexica(cache, now, query, "images", resp)
           r == sp.result
       IN  /\ Invoke(query, "images", sp)
           /\ outcome' = [outcome EXCEPT !["images"] = r]
           /\ runPosts' = runPosts + sp.posts
           /\ IF r.kind = "ok"
              THEN /\ imgs' = DictGet(r.value, "images", << >>)
                   /\ pc' = "videos"
              ELSE IF BareCatches(r.kind)
              THEN /\ imgs' = << >>
                   /\ pc' = "videos"
              ELSE /\ UNCHANGED imgs
                   /\ pc' = "crashed"
    /\ UNCHANGED <<now, query, web_result, vids, alerts, panels, url, yt>>

\* lines 67-71
SearchVideos(resp) ==
    /\ pc = "videos"
    /\ LET sp == search_perplexica(cache, now, query, "videos", resp)
           r == sp.result
       IN  /\ Invoke(query, "videos", sp)
           /\ outcome' = [outcome EXCEPT !["videos"] = r]
           /\ runPosts' = runPosts + sp.posts
           /\ IF r.kind = "ok"
              THEN /\ vids' = DictGet(r.value, "videos", << >>)
                   /\ pc' = "render"
              ELSE IF BareCatches(r.kind)
              THEN /\ vids' = << >>
                   /\ pc' = "render"
              ELSE /\ UNCHANGED vids
                   /\ pc' = "crashed"
    /\ UNCHANGED <<now, query, web_result, imgs, alerts, panels, url, yt>>

\* lines 73-130
RenderTabs ==
    /\ pc = "render"
    /\ panels' = [m \in ValidModes |->
                    IF m = "web" THEN WebPanel(web_result)
                    ELSE IF m = "images" THEN ListPanel(imgs)
                    ELSE ListPanel(vids)]
    /\ pc' = "idle"
    /\ UNCHANGED <<now, cache, fetched, last, query, outcome, runPosts,
                   web_result, imgs, vids, alerts, url, yt>>

\* lines 131-134: a run without the button pressed or with an empty query
Rerun ==
    /\ pc = "idle"
    /\ panels' = [m \in ValidModes |-> Prompt]
    /\ query' = ""
    /\ outcome' = NoOutcome
    /\ runPosts' = 0
    /\ web_result' = PyNone
    /\ imgs' = << >>
    /\ vids' = << >>
    /\ alerts' = {}
    /\ UNCHANGED <<now, cache, fetched, last, pc, url, yt>>

(***************************************************************************)
(* SpecFetch: search_perplexica called with every query and mode tag.      *)
(***************************************************************************)
NextFetch ==
    \/ \E t \in Times : Tick(t)
    \/ \E k \in CallInputs : \E resp \in Responses(k[2]) : Call(k[1], k[2], resp)

SpecFetch == Init /\ [][NextFetch]_vars

(***************************************************************************)
(* SpecRun: the dashboard, one script run after another.                   *)
(***************************************************************************)
NextRun ==
    \/ \E t \in Times : Tick(t)
    \/ \E q \in RunQueries : Submit(q)
    \/ \E resp \in Responses("web") : SearchWeb(resp)
    \/ \E resp \in Responses("images") : SearchImages(resp)
    \/ \E resp \in Responses("videos") : SearchVideos(resp)
    \/ RenderTabs
    \/ Rerun

SpecRun == Init /\ [][NextRun]_vars

(***************************************************************************)
(* SpecYT: extract_youtube_id applied to each input URL.                   *)
(***************************************************************************)
InitYT ==
    /\ now = 0
    /\ cache = {}
    /\ fetched = [k \in Keys |-> PyNone]
    /\ last = NoCall
    /\ pc = "extract"
    /\ query = ""
    /\ outcome = NoOutcome
    /\ runPosts = 0
    /\ web_result = PyNone
    /\ imgs = << >>
    /\ vids = << >>
    /\ alerts = {}
    /\ panels = [m \in ValidModes |-> Prompt]
    /\ url \in UrlInputs
    /\ yt = None

Extract ==
    /\ pc = "extract"
    /\ yt' = extract_youtube_id(url)
    /\ pc' = "extracted"
    /\ UNCHANGED <<now, cache, fetched, last, query, outcome, runPosts,
                   web_result, imgs, vids, alerts, panels, url>>

NextYT == Extract

SpecYT == InitYT /\ [][NextYT]_vars

(***************************************************************************)
(* Properties.                                                             *)
(***************************************************************************)
\* the entries of c for (q, mode), live or not
EntriesFor(c, q, mode) == {e \in c : e.query = q /\ e.mode = mode}

\* the submit flow has run to its end and the tabs show its results
Rendered == pc = "idle" /\ query # ""

\* C1, as claimed: two successive calls with the same valid (query, mode),
\* the second less than 300 seconds after the first, issue at most one HTTP
\* POST between them.
C1_TwoCallsOnePost ==
    [][ ( /\ last' # last
          /\ last.mode \in ValidModes
          /\ last'.query = last.query
          /\ last'.mode = last.mode
          /\ last'.at - last.at < TTL )
        => last.posts + last'.posts <= 1 ]_vars

\* C1, amended: when the first of the two calls returned a result, the two
\* issue at most one HTTP POST between them, and if the first one fetched
\* from the network the second is a cache hit returning the same body.
C1_TwoCallsOnePostAfterSuccess ==
    [][ ( /\ last' # last
          /\ last.mode \in ValidModes
          /\ last.result.kind = "ok"
          /\ last'.query = last.query
          /\ last'.mode = last.mode
          /\ last'.at - last.at < TTL )
        => /\ last.posts + last'.posts <= 1
           /\ last.posts > 0 => /\ last'.posts = 0
                                /\ last'.result = last.result ]_vars

\* a cache hit 299 seconds after the entry was stored
C1_Witness ==
    /\ last.mode \in ValidModes
    /\ last.result.kind = "ok"
    /\ last.posts = 0
    /\ last.at = TTL - 1
    /\ \E e \in EntriesFor(cache, last.query, last.mode) : e.at = 0

\* C2: a call for a (query, mode) whose cached entry is 300 or more seconds
\* old issues an HTTP POST, and what it returns is the outcome of that
\* request: the newly fetched body or an error.
C2_ExpiredEntryRefetched ==
    [][ \A k \in CallInputs :
          ( /\ last' # last
            /\ last'.query = k[1]
            /\ last'.mode = k[2]
            /\ EntriesFor(cache, k[1], k[2]) # {}
            /\ \A e \in EntriesFor(cache, k[1], k[2]) : now - e.at >= TTL )
          => /\ last'.posts >= 1
             /\ last'.result.kind = "ok" => last'.result.value = fetched'[k] ]_vars

\* a call that found an entry exactly 300 seconds old, posted and failed
C2_Witness ==
    /\ last.posts = 1
    /\ last.result.kind = "ConnectionError"
    /\ \E e \in EntriesFor(cache, last.query, last.mode) : last.at - e.at = TTL

\* C3: a call with a mode outside {web, images, videos} raises ValueError
\* and issues no HTTP POST.
C3_UnknownModeRejected ==
    (last.mode \notin ValidModes /\ last # NoCall)
        => /\ last.result.kind = "ValueError"
           /\ last.posts = 0
           /\ last.request = NoRequest

\* an unknown mode rejected while the cache holds entries
C3_Witness ==
    /\ last.mode = "news"
    /\ last.result.kind = "ValueError"
    /\ cache # {}

\* C4, as claimed: after a submit, every mode whose fetch got a 4xx/5xx
\* response shows the failure: an error message is displayed for it, so
\* that its tab is not the plain "no results" state alone.
C4_HttpErrorSurfaced ==
    Rendered =>
        \A m \in ValidModes : outcome[m].kind = "HTTPError" => m \in alerts

\* C5: no failed fetch stops the run.  Whatever the earlier fetches did, the
\* later ones are called; at the end all three were called, every tab is
\* rendered, and the tab of a mode whose fetch failed shows the
\* informational state.
C5_FailuresIsolated ==
    /\ pc # "crashed"
    /\ pc \in {"images", "videos", "render"} => outcome["web"] # NoResult
    /\ pc \in {"videos", "render"} => outcome["images"] # NoResult
    /\ pc = "render" => outcome["videos"] # NoResult
    /\ Rendered =>
         \A m \in ValidModes :
            /\ outcome[m] # NoResult
            /\ panels[m].show \in {"results", "info"}
            /\ outcome[m].kind # "ok" => panels[m] = Info

\* web and videos failed, images succeeded and its tab shows the results
C5_Witness ==
    /\ Rendered
    /\ outcome["web"].kind = "ConnectionError"
    /\ outcome["images"].kind = "ok"
    /\ outcome["videos"].kind = "JSONDecodeError"
    /\ panels["images"].show = "results"
    /\ panels["web"] = Info
    /\ panels["videos"] = Info

\* C6: one invocation of search_perplexica issues at most one HTTP POST,
\* failed or not, and a submit issues at most one per mode called so far,
\* three in all.
C6_NoRetry ==
    /\ last.posts <= 1
    /\ runPosts <= 3
    /\ pc = "web" => runPosts = 0
    /\ pc = "images" => runPosts <= 1
    /\ pc = "videos" => runPosts <= 2

\* a submit whose three fetches all failed after one HTTP POST each
C6_Witness ==
    /\ Rendered
    /\ runPosts = 3
    /\ \A m \in ValidModes : outcome[m].kind \in {"ConnectionError", "HTTPError"}

\* C7: every HTTP POST goes to its mode's endpoint with its mode's payload:
\* web to /search with exactly query, focusMode "webSearch" and
\* optimizationMode "speed"; images and videos to /images and /videos with
\* exactly query, chatModel {provider, model} and an empty chatHistory.
C7_EndpointAndPayload ==
    last.posts > 0 =>
        LET r == last.request
        IN  /\ r.query = last.query
            /\ r.mode = last.mode
            /\ r.url.base = "http://localhost:3000/api"
            /\ r.json.query = last.query
            /\ last.mode \in {"web", "images", "videos"}
            /\ last.mode = "web" =>
                 /\ r.url.path = "/search"
                 /\ r.json = [query |-> last.query, focusMode |-> "webSearch",
                              optimizationMode |-> "speed"]
            /\ last.mode \in {"images", "videos"} =>
                 /\ r.url.path = (IF last.mode = "images" THEN "/images" ELSE "/videos")
                 /\ DOMAIN r.json = {"query", "chatModel", "chatHistory"}
                 /\ DOMAIN r.json.chatModel = {"provider", "model"}
                 /\ r.json.chatHistory = << >>

\* an HTTP POST sent for the videos mode
C7_Witness ==
    /\ last.posts = 1
    /\ last.mode = "videos"
    /\ last.query = "q1"
    /\ last.request.url.path = "/videos"

\* C8: extract_youtube_id returns an identifier that follows "youtu.be/" or
\* "youtube.com/watch?v=" in the URL and runs up to the first '?' or '&' (or
\* the end); it returns one whenever the URL holds such a non-empty
\* identifier, and None otherwise, in particular for a URL that holds
\* neither pattern.  "https://youtu.be/XYZ" gives "XYZ" and
\* "https://example.com" gives None.
C8_ExtractYoutubeId ==
    pc = "extracted" =>
        LET lits == {PatYoutuBe, PatWatch}
            Sep(c) == c \in {"?", "&"}
            Occurs(lit, i) ==
                /\ i + Len(lit) - 1 <= Len(url)
                /\ SubSeq(url, i, i + Len(lit) - 1) = lit
            IdAt(lit, i) ==
                LET j == i + Len(lit)
                    ends == {k \in (j - 1)..Len(url) :
                                /\ \A x \in j..k : ~Sep(url[x])
                                /\ k = Len(url) \/ Sep(url[k + 1])}
                IN  SubSeq(url, j, CHOOSE k \in ends : TRUE)
            Found == {<<lit, i>> \in lits \X (1..Len(url)) : Occurs(lit, i)}
            Ids == {IdAt(o[1], o[2]) : o \in Found} \ {<< >>}
        IN  /\ Found = {} => yt = None
            /\ Ids = {} => yt = None
            /\ Ids # {} => (yt.some /\ yt.id \in Ids)
            /\ url = UrlYoutuBeXYZ => yt = Some(<<"X", "Y", "Z">>)
            /\ url = UrlExample => yt = None

\* the identifier of "https://youtu.be/XYZ" extracted
C8_Witness ==
    /\ pc = "extracted"
    /\ url = SegScheme \o SegYoutuBe \o SegId
    /\ yt = Some(SegId)

\* C9: a call that fails leaves the cache as it was, and the call that
\* follows a failed call with the same valid (query, mode) issues an HTTP
\* POST again.
C9_FailuresNotCached ==
    [][ /\ (last' # last /\ last'.result.kind # "ok") => cache' = cache
        /\ ( /\ last' # last
             /\ last.mode \in ValidModes
             /\ last.result.kind \notin {"ok", "none"}
             /\ last'.query = last.query
             /\ last'.mode = last.mode )
           => last'.posts >= 1 ]_vars

\* a call that posted and failed while the cache holds an entry of another
\* pair and none of its own
C9_Witness ==
    /\ last.posts = 1
    /\ last.result.kind = "HTTPError"
    /\ cache # {}
    /\ EntriesFor(cache, last.query, last.mode) = {}

\* C10: the cache holds at most one entry per (query, mode), and a cache hit
\* returns the body of the latest successful network fetch for that same
\* (query, mode).
C10_OneEntryPerKeyOwnValue ==
    /\ \A e1, e2 \in cache :
          (e1.query = e2.query /\ e1.mode = e2.mode) => e1 = e2
    /\ (last.result.kind = "ok" /\ last.posts = 0)
          => last.result.value = fetched[<<last.query, last.mode>>]

\* a hit for (q1, web) returning body A while (q2, web) is cached with body B
C10_Witness ==
    /\ last.query = "q1"
    /\ last.mode = "web"
    /\ last.posts = 0
    /\ last.result = Return(WebBodyA)
    /\ \E e \in EntriesFor(cache, "q2", "web") : e.value = WebBodyB
    /\ \E e \in EntriesFor(cache, "q1", "images") : TRUE

====
